---- MODULE Spec2Model ----
(***************************************************************************)
(* Model of the pentagon ring generator, src/10Pentagon_cloudie.py         *)
(* (class PerfectPentagonRing), of the ring generator of                   *)
(* src/code/10Pentagon_GoogleAI.py (class MoroGeometricCore) and of the    *)
(* edge-lookup chain of src/build_pentagon_GPT.py (main).                  *)
(*                                                                         *)
(* Arithmetic.  Every angle the program forms for the modelled inputs is   *)
(* a multiple of 36 degrees, so an angle is an integer number of 36-degree *)
(* ticks (2*pi = 10 ticks, 72 degrees = 2 ticks).  A point (x, y) is the   *)
(* complex number x + iy written exactly in the basis 1, z, z^2, z^3 of    *)
(* Z[z], z = cos 36 + i sin 36 (z^4 = z^3 - z^2 + z - 1), as a 4-tuple of  *)
(* integers.  A real number (a norm, a tolerance) is a + b*phi, phi the    *)
(* golden ratio, written <<a, b>>.  The arithmetic is exact: the rounding  *)
(* of IEEE-754 doubles is not modelled.                                    *)
(***************************************************************************)
EXTENDS Integers, Sequences, FiniteSets, TLC

\* ------------------------------------------------------------------ bounds
MaxEdge == 2
MaxCalls == 4

\* --------------------------------------------------------------- constants
\* 2 * math.pi, in ticks of 36 degrees
TWO_PI == 10
\* PENTAGON_EXTERIOR_ANGLE = 2 * math.pi / 5, in ticks of 36 degrees
PENTAGON_EXTERIOR_ANGLE == 2

\* Python's None
None == <<>>

\* -------------------------------------------------- the reals Z[phi]
RZero == <<0, 0>>
RInt(n) == <<n, 0>>
RAdd(x, y) == <<x[1] + y[1], x[2] + y[2]>>
RNeg(x) == <<0 - x[1], 0 - x[2]>>
RSub(x, y) == RAdd(x, RNeg(y))
\* (a + b phi)(c + d phi) with phi^2 = phi + 1
RMul(x, y) == <<x[1] * y[1] + x[2] * y[2],
               x[1] * y[2] + x[2] * y[1] + x[2] * y[2]>>
RScale(k, x) == <<k * x[1], k * x[2]>>
\* sign of a + b phi = (P + Q sqrt 5) / 2 with P = 2a + b, Q = b
RSign(x) ==
    LET P == 2 * x[1] + x[2]
        Q == x[2]
    IN  IF P = 0 /\ Q = 0 THEN 0
        ELSE IF P >= 0 /\ Q >= 0 THEN 1
        ELSE IF P <= 0 /\ Q <= 0 THEN 0 - 1
        ELSE IF P > 0 THEN (IF P * P > 5 * Q * Q THEN 1 ELSE 0 - 1)
        ELSE (IF 5 * Q * Q > P * P THEN 1 ELSE 0 - 1)
\* x < y on floats
RLess(x, y) == RSign(RSub(y, x)) = 1
RAbs(x) == IF RSign(x) < 0 THEN RNeg(x) ELSE x
\* a value no norm takes: marks a square root outside Z[phi]
NotRepresentable == <<0 - 1, 0>>
ISqrt(n) == CHOOSE r \in 0..n : r * r <= n /\ (r + 1) * (r + 1) > n
\* the non-negative square root, exact in Z[phi]
RSqrt(q) ==
    IF q[1] < 0 THEN NotRepresentable
    ELSE LET n == ISqrt(q[1])
             roots == {r \in ((0 - n)..n) \X ((0 - n)..n) :
                          RMul(r, r) = q /\ RSign(r) >= 0}
         IN  IF roots = {} THEN NotRepresentable ELSE CHOOSE r \in roots : TRUE

\* -------------------------------------------------- the points Z[z]
Origin == <<0, 0, 0, 0>>
VAdd(p, q) == <<p[1] + q[1], p[2] + q[2], p[3] + q[3], p[4] + q[4]>>
VScale(p, k) == <<k * p[1], k * p[2], k * p[3], k * p[4]>>
VNeg(p) == VScale(p, 0 - 1)
VSub(p, q) == VAdd(p, VNeg(q))
\* np.array([math.cos(angle), math.sin(angle)]) = z^angle
UnitVector(angle) ==
    LET k == angle % TWO_PI
        base == CASE k % 5 = 0 -> <<1, 0, 0, 0>>
                  [] k % 5 = 1 -> <<0, 1, 0, 0>>
                  [] k % 5 = 2 -> <<0, 0, 1, 0>>
                  [] k % 5 = 3 -> <<0, 0, 0, 1>>
                  [] k % 5 = 4 -> <<0 - 1, 1, 0 - 1, 1>>
    IN  IF k < 5 THEN base ELSE VNeg(base)
\* x^2 + y^2 of a point, a real of Z[phi]
NormSq(p) ==
    <<p[1] * p[1] + p[2] * p[2] + p[3] * p[3] + p[4] * p[4]
        - (p[1] * p[3] + p[2] * p[4]) + p[1] * p[4],
      (p[1] * p[2] + p[2] * p[3] + p[3] * p[4])
        + (p[1] * p[3] + p[2] * p[4]) - p[1] * p[4]>>
\* np.linalg.norm
Norm(p) == RSqrt(NormSq(p))
\* twice the x coordinate, and the y coordinate over sin 36, as reals
TwiceX(p) == <<2 * p[1] - p[3] + p[4], p[2] + p[3] - p[4]>>
YOverSin36(p) == <<p[2], p[3] + p[4]>>

\* ------------------------------------------------------------- inputs
PentagonCounts == {0 - 1, 0, 1, 2, 5, 10}
EdgeLengths == {0 - 1, 0} \cup (1..MaxEdge)
Tolerances == {RZero, RInt(1), <<0, 1>>, <<0, 2>>}
StartPositions == {Origin, <<2, 0 - 1, 0, 1>>}
StartAngles == (0 - 1)..10

\* ------------------------------------------------------------- state
VARIABLES
    exists,                 \* a ring object has been constructed
    num_pentagons,          \* self.num_pentagons
    edge_length,            \* self.edge_length
    rotation_per_pentagon,  \* self.rotation_per_pentagon, in ticks
    pentagons,              \* self.pentagons
    final_position,         \* self.final_position
    closure_error,          \* self.closure_error
    pc,                     \* "idle", or "loop" inside generate()
    current_pos,            \* generate(): current_pos
    current_angle,          \* generate(): current_angle
    i,                      \* generate(): loop index
    call,                   \* the last call made by the caller
    arg,                    \* its argument
    raised,                 \* the exception it raised, or "None"
    ret,                    \* the value it returned
    generations,            \* completed generate() calls on this object
    starts,                 \* start point passed for each pentagon built
    last,                   \* the ring generated before the current one
    calls,                  \* number of constructor and generate() calls
    \* MoroGeometricCore.generate_ring_points
    numpy_raises,           \* this numpy rejects ragged input to np.array
    m_edge_length,          \* self.edge_length
    n_pentagons,            \* the argument n_pentagons
    m_pc,                   \* "none", "idle", "loop", "returned", "raised"
    all_shapes,             \* all_shapes
    curr_pos,               \* curr_pos
    curr_angle,             \* curr_angle
    shift_angle,            \* shift_angle, in ticks
    m_p,                    \* loop index p
    m_ret,                  \* the list returned
    \* build_pentagon_GPT.main
    g_pc,                   \* "none", "start", "loop", "done"
    polys,                  \* polys
    e3_start,               \* e3_start
    e3_end,                 \* e3_end
    g_count,                \* iterations of the loop of line 67 done
    closure                 \* closure

ring == <<num_pentagons, edge_length, rotation_per_pentagon, pentagons,
          final_position, closure_error>>
locals == <<pc, current_pos, current_angle, i>>
observed == <<call, arg, raised, ret>>
perfect == <<exists, ring, locals, observed, generations, starts, last, calls>>
moro == <<numpy_raises, m_edge_length, n_pentagons, m_pc, all_shapes,
          curr_pos, curr_angle, shift_angle, m_p, m_ret>>
gpt == <<g_pc, polys, e3_start, e3_end, g_count, closure>>
vars == <<perfect, moro, gpt>>

\* generate() has returned on the current object
generated == generations > 0

\* the caller's copy of a generated ring
Snapshot ==
    [num_pentagons |-> num_pentagons, edge_length |-> edge_length,
     pentagons |-> pentagons, final_position |-> final_position,
     closure_error |-> closure_error]

Init ==
    /\ exists = FALSE
    /\ num_pentagons = 0
    /\ edge_length = 0
    /\ rotation_per_pentagon = 0
    /\ pentagons = <<>>
    /\ final_position = None
    /\ closure_error = None
    /\ pc = "idle"
    /\ current_pos = Origin
    /\ current_angle = 0
    /\ i = 0
    /\ call = "None"
    /\ arg = None
    /\ raised = "None"
    /\ ret = None
    /\ generations = 0
    /\ starts = <<>>
    /\ last = <<>>
    /\ calls = 0
    /\ numpy_raises = FALSE
    /\ m_edge_length = 0
    /\ n_pentagons = 0
    /\ m_pc = "none"
    /\ all_shapes = <<>>
    /\ curr_pos = Origin
    /\ curr_angle = 0
    /\ shift_angle = 0
    /\ m_p = 0
    /\ m_ret = None
    /\ g_pc = "none"
    /\ polys = <<>>
    /\ e3_start = None
    /\ e3_end = None
    /\ g_count = 0
    /\ closure = None

\* the rotation step, had it been hard-coded to the 36 degrees of 10 pentagons
RotationPerPentagon_Fixed36(n) == TWO_PI \div TWO_PI

\* 2 * math.pi / num_pentagons, in ticks (exact for the modelled counts)
RotationPerPentagon(n) ==
    IF n > 0 THEN TWO_PI \div n ELSE 0 - (TWO_PI \div (0 - n))

\* the constructor, had it initialised closure_error to 0.0 instead of None
Construct_ZeroError(n, len) ==
    /\ pc = "idle"
    /\ calls < MaxCalls
    /\ calls' = calls + 1
    /\ call' = "__init__"
    /\ arg' = <<n, len>>
    /\ ret' = None
    /\ IF n = 0
       THEN /\ raised' = "ZeroDivisionError"
            /\ UNCHANGED <<exists, ring, locals, generations, starts, last>>
       ELSE /\ raised' = "None"
            /\ exists' = TRUE
            /\ num_pentagons' = n
            /\ edge_length' = len
            /\ rotation_per_pentagon' = RotationPerPentagon(n)
            /\ pentagons' = <<>>
            /\ final_position' = None
            /\ closure_error' = RZero
            /\ generations' = 0
            /\ starts' = <<>>
            /\ last' = IF generated THEN <<Snapshot>> ELSE last
            /\ UNCHANGED locals

\* PerfectPentagonRing(num_pentagons = n, edge_length = len)
Construct(n, len) ==
    /\ pc = "idle"
    /\ calls < MaxCalls
    /\ calls' = calls + 1
    /\ call' = "__init__"
    /\ arg' = <<n, len>>
    /\ ret' = None
    /\ IF n = 0
       THEN \* 2 * math.pi / 0 raises: no object reaches the caller
            /\ raised' = "ZeroDivisionError"
            /\ UNCHANGED <<exists, ring, locals, generations, starts, last>>
       ELSE /\ raised' = "None"
            /\ exists' = TRUE
            /\ num_pentagons' = n
            /\ edge_length' = len
            /\ rotation_per_pentagon' = RotationPerPentagon(n)
            /\ pentagons' = <<>>
            /\ final_position' = None
            /\ closure_error' = None
            /\ generations' = 0
            /\ starts' = <<>>
            /\ last' = IF generated THEN <<Snapshot>> ELSE last
            /\ UNCHANGED locals

RECURSIVE BuildLoop_InteriorAngle(_, _, _, _)
\* the loop, had it turned by the interior angle (108 degrees) at each vertex
BuildLoop_InteriorAngle(vertices, pos, angle, k) ==
    IF k = 5 THEN vertices
    ELSE BuildLoop_InteriorAngle(
             Append(vertices, pos),
             VAdd(pos, VScale(UnitVector(angle), edge_length)),
             angle + PENTAGON_EXTERIOR_ANGLE + 1,
             k + 1)

\* the loop of _build_single_pentagon, lines 73-86
RECURSIVE BuildLoop(_, _, _, _)
BuildLoop(vertices, pos, angle, k) ==
    IF k = 5 THEN vertices
    ELSE BuildLoop(Append(vertices, pos),
                   VAdd(pos, VScale(UnitVector(angle), edge_length)),
                   angle + PENTAGON_EXTERIOR_ANGLE,
                   k + 1)

\* the builder, had it appended a closing copy of vertex 0
BuildSinglePentagon_Closed(start_pos, start_angle) ==
    LET vertices == BuildLoop(<<>>, start_pos, start_angle, 0)
    IN  Append(vertices, vertices[1])

\* self._build_single_pentagon(start_pos, start_angle)
BuildSinglePentagon(start_pos, start_angle) ==
    BuildLoop(<<>>, start_pos, start_angle, 0)

\* the transition, had vec2 been taken at 72 degrees instead of angle + 72
CalculateNextPosition_FixedVec2(pos, angle) ==
    LET vec1 == UnitVector(angle)
        vec2 == UnitVector(PENTAGON_EXTERIOR_ANGLE)
        displacement == VScale(VAdd(vec1, vec2), edge_length)
    IN  VAdd(pos, displacement)

\* the transition, had it advanced along one edge only (vec1 without vec2)
CalculateNextPosition_OneEdge(pos, angle) ==
    LET vec1 == UnitVector(angle)
        displacement == VScale(vec1, edge_length)
    IN  VAdd(pos, displacement)

\* self._calculate_next_position(pos, angle)
CalculateNextPosition(pos, angle) ==
    LET vec1 == UnitVector(angle)
        angle_plus_72 == angle + PENTAGON_EXTERIOR_ANGLE
        vec2 == UnitVector(angle_plus_72)
        displacement == VScale(VAdd(vec1, vec2), edge_length)
    IN  VAdd(pos, displacement)

\* generate(), had it not reset self.pentagons
GenerateBegin_NoReset ==
    /\ exists
    /\ pc = "idle"
    /\ calls < MaxCalls
    /\ calls' = calls + 1
    /\ call' = "generate"
    /\ arg' = None
    /\ raised' = "None"
    /\ ret' = None
    /\ current_pos' = Origin
    /\ current_angle' = 0
    /\ i' = 0
    /\ pc' = "loop"
    /\ starts' = <<>>
    /\ last' = IF generated THEN <<Snapshot>> ELSE last
    /\ UNCHANGED <<exists, num_pentagons, edge_length, rotation_per_pentagon,
                   pentagons, final_position, closure_error, generations>>

\* generate(), had it started the chain at (1, 0) instead of the origin
GenerateBegin_OffOrigin ==
    /\ exists
    /\ pc = "idle"
    /\ calls < MaxCalls
    /\ calls' = calls + 1
    /\ call' = "generate"
    /\ arg' = None
    /\ raised' = "None"
    /\ ret' = None
    /\ pentagons' = <<>>
    /\ current_pos' = UnitVector(0)
    /\ current_angle' = 0
    /\ i' = 0
    /\ pc' = "loop"
    /\ starts' = <<>>
    /\ last' = IF generated THEN <<Snapshot>> ELSE last
    /\ UNCHANGED <<exists, num_pentagons, edge_length, rotation_per_pentagon,
                   final_position, closure_error, generations>>

\* generate(), lines 131-135: reset and initial running state
GenerateBegin ==
    /\ exists
    /\ pc = "idle"
    /\ calls < MaxCalls
    /\ calls' = calls + 1
    /\ call' = "generate"
    /\ arg' = None
    /\ raised' = "None"
    /\ ret' = None
    /\ pentagons' = <<>>
    /\ current_pos' = Origin
    /\ current_angle' = 0
    /\ i' = 0
    /\ pc' = "loop"
    /\ starts' = <<>>
    /\ last' = IF generated THEN <<Snapshot>> ELSE last
    /\ UNCHANGED <<exists, num_pentagons, edge_length, rotation_per_pentagon,
                   final_position, closure_error, generations>>

\* the loop body, had it reduced the heading modulo 2*pi
GenerateIter_Wrapped ==
    /\ pc = "loop"
    /\ i < num_pentagons
    /\ pentagons' = Append(pentagons,
                           BuildSinglePentagon(current_pos, current_angle))
    /\ starts' = Append(starts, current_pos)
    /\ current_pos' = CalculateNextPosition(current_pos, current_angle)
    /\ current_angle' = (current_angle + rotation_per_pentagon) % TWO_PI
    /\ i' = i + 1
    /\ UNCHANGED <<exists, num_pentagons, edge_length, rotation_per_pentagon,
                   final_position, closure_error, pc, observed, generations,
                   last, calls>>

\* generate(), lines 138-145: one iteration of the loop
GenerateIter ==
    /\ pc = "loop"
    /\ i < num_pentagons
    /\ pentagons' = Append(pentagons,
                           BuildSinglePentagon(current_pos, current_angle))
    /\ starts' = Append(starts, current_pos)
    /\ current_pos' = CalculateNextPosition(current_pos, current_angle)
    /\ current_angle' = current_angle + rotation_per_pentagon
    /\ i' = i + 1
    /\ UNCHANGED <<exists, num_pentagons, edge_length, rotation_per_pentagon,
                   final_position, closure_error, pc, observed, generations,
                   last, calls>>

\* generate(), lines 147-153: record the final position and closure error
GenerateEnd ==
    /\ pc = "loop"
    /\ ~(i < num_pentagons)
    /\ final_position' = current_pos
    /\ closure_error' = Norm(current_pos)
    /\ pc' = "idle"
    /\ generations' = generations + 1
    /\ UNCHANGED <<exists, num_pentagons, edge_length, rotation_per_pentagon,
                   pentagons, current_pos, current_angle, i, observed,
                   starts, last, calls>>

\* verify_closure, had it compared with <= instead of <
VerifyClosure_NonStrict(tolerance) ==
    /\ exists
    /\ pc = "idle"
    /\ call' = "verify_closure"
    /\ arg' = tolerance
    /\ IF closure_error = None
       THEN /\ raised' = "RuntimeError"
            /\ ret' = None
       ELSE /\ raised' = "None"
            /\ ret' = <<~RLess(tolerance, closure_error), closure_error>>
    /\ UNCHANGED <<exists, ring, locals, generations, starts, last, calls>>

\* verify_closure(tolerance)
VerifyClosure(tolerance) ==
    /\ exists
    /\ pc = "idle"
    /\ call' = "verify_closure"
    /\ arg' = tolerance
    /\ IF closure_error = None
       THEN /\ raised' = "RuntimeError"
            /\ ret' = None
       ELSE /\ raised' = "None"
            /\ ret' = <<RLess(closure_error, tolerance), closure_error>>
    /\ UNCHANGED <<exists, ring, locals, generations, starts, last, calls>>

RECURSIVE SumLen(_)
\* len(np.vstack(pents))
SumLen(pents) ==
    IF pents = <<>> THEN 0 ELSE Len(Head(pents)) + SumLen(Tail(pents))

\* the list edge_lengths of get_statistics(), lines 251-257
EdgeLengthList(pents) ==
    [k \in 1..(5 * Len(pents)) |->
        LET pentagon == pents[((k - 1) \div 5) + 1]
            j == (k - 1) % 5
            v1 == pentagon[j + 1]
            v2 == pentagon[((j + 1) % 5) + 1]
        IN  Norm(VSub(v2, v1))]

RECURSIVE RSum(_)
RSum(xs) == IF xs = <<>> THEN RZero ELSE RAdd(Head(xs), RSum(Tail(xs)))

\* np.mean, as the fraction num / den
Mean(xs) == [num |-> RSum(xs), den |-> Len(xs)]

\* np.std, kept as its square num / den (the variance)
StdSquared(xs) ==
    LET n == Len(xs)
        total == RSum(xs)
        dev(k) == RSub(RScale(n, xs[k]), total)
    IN  [num |-> RSum([k \in 1..n |-> RMul(dev(k), dev(k))]),
         den |-> n * n * n]

\* np.min and np.max
Min(xs) == CHOOSE x \in {xs[k] : k \in 1..Len(xs)} :
               \A k \in 1..Len(xs) : ~RLess(xs[k], x)
Max(xs) == CHOOSE x \in {xs[k] : k \in 1..Len(xs)} :
               \A k \in 1..Len(xs) : ~RLess(x, xs[k])

\* get_statistics()
GetStatistics ==
    /\ exists
    /\ pc = "idle"
    /\ call' = "get_statistics"
    /\ arg' = None
    /\ IF pentagons = <<>>
       THEN /\ raised' = "RuntimeError"
            /\ ret' = None
       ELSE /\ raised' = "None"
            /\ ret' = LET edge_lengths == EdgeLengthList(pentagons)
                      IN  [num_pentagons |-> num_pentagons,
                           num_vertices |-> SumLen(pentagons),
                           edge_length_mean |-> Mean(edge_lengths),
                           edge_length_std |-> StdSquared(edge_lengths),
                           edge_length_min |-> Min(edge_lengths),
                           edge_length_max |-> Max(edge_lengths),
                           closure_error |-> closure_error,
                           final_position |-> final_position]
    /\ UNCHANGED <<exists, ring, locals, generations, starts, last, calls>>

\* the caller reads ring.final_position
ReadFinalPosition ==
    /\ exists
    /\ pc = "idle"
    /\ call' = "final_position"
    /\ arg' = None
    /\ raised' = "None"
    /\ ret' = final_position
    /\ UNCHANGED <<exists, ring, locals, generations, starts, last, calls>>

\* the caller invokes ring._build_single_pentagon(start_pos, start_angle)
CallBuildSinglePentagon(start_pos, start_angle) ==
    /\ exists
    /\ pc = "idle"
    /\ call' = "_build_single_pentagon"
    /\ arg' = <<start_pos, start_angle>>
    /\ raised' = "None"
    /\ ret' = BuildSinglePentagon(start_pos, start_angle)
    /\ UNCHANGED <<exists, ring, locals, generations, starts, last, calls>>

Next ==
    \/ /\ \E n \in PentagonCounts, len \in EdgeLengths : Construct(n, len)
       /\ UNCHANGED <<moro, gpt>>
    \/ GenerateBegin /\ UNCHANGED <<moro, gpt>>
    \/ GenerateIter /\ UNCHANGED <<moro, gpt>>
    \/ GenerateEnd /\ UNCHANGED <<moro, gpt>>
    \/ /\ \E tolerance \in Tolerances : VerifyClosure(tolerance)
       /\ UNCHANGED <<moro, gpt>>
    \/ GetStatistics /\ UNCHANGED <<moro, gpt>>
    \/ ReadFinalPosition /\ UNCHANGED <<moro, gpt>>
    \/ /\ \E start_pos \in StartPositions, start_angle \in StartAngles :
              CallBuildSinglePentagon(start_pos, start_angle)
       /\ UNCHANGED <<moro, gpt>>

Spec == Init /\ [][Next]_vars

\* ------------------------------------------------ MoroGeometricCore
\* math.radians(degrees), in ticks of 36 degrees
Radians(degrees) == degrees \div 36

\* 360 / n_pentagons (exact for the modelled counts)
Degrees360Over(n) == IF n > 0 THEN 360 \div n ELSE 0 - (360 \div (0 - n))

RECURSIVE MoroPoints(_, _, _, _)
\* the inner loop of generate_ring_points, lines 46-50
MoroPoints(points, temp_pos, temp_angle, k) ==
    IF k = 5 THEN points
    ELSE MoroPoints(Append(points, temp_pos),
                    VAdd(temp_pos,
                         VScale(UnitVector(temp_angle), m_edge_length)),
                    temp_angle + Radians(72),
                    k + 1)

\* points + [points], line 53: the list of the 5 points with the list itself
\* appended as a sixth element
PointsPlusListOfPoints(points) == points \o <<points>>

\* generate_ring_points(n_pentagons), lines 32-37
MoroBegin ==
    /\ m_pc = "idle"
    /\ all_shapes' = <<>>
    /\ curr_pos' = Origin
    /\ curr_angle' = 0
    /\ shift_angle' = Radians(Degrees360Over(n_pentagons))
    /\ m_p' = 0
    /\ m_pc' = "loop"
    /\ UNCHANGED <<numpy_raises, m_edge_length, n_pentagons, m_ret>>
    /\ UNCHANGED <<perfect, gpt>>

\* the loop body, had the jump been taken along the first edge only
MoroIter_OneEdge ==
    /\ m_pc = "loop"
    /\ m_p < n_pentagons
    /\ LET points == MoroPoints(<<>>, curr_pos, curr_angle, 0)
       IN  IF numpy_raises
           THEN /\ m_pc' = "raised"
                /\ UNCHANGED <<all_shapes, curr_pos, curr_angle, m_p>>
           ELSE /\ all_shapes' =
                       Append(all_shapes, PointsPlusListOfPoints(points))
                /\ curr_pos' = VAdd(curr_pos,
                                    VScale(UnitVector(curr_angle),
                                           m_edge_length))
                /\ curr_angle' = curr_angle + shift_angle
                /\ m_p' = m_p + 1
                /\ m_pc' = m_pc
    /\ UNCHANGED <<numpy_raises, m_edge_length, n_pentagons, shift_angle,
                   m_ret>>
    /\ UNCHANGED <<perfect, gpt>>

\* generate_ring_points, lines 39-63: one iteration of the outer loop.
\* np.array of the ragged list of line 53 raises ValueError on a numpy that
\* rejects inhomogeneous shapes and builds an object array otherwise.
MoroIter ==
    /\ m_pc = "loop"
    /\ m_p < n_pentagons
    /\ LET points == MoroPoints(<<>>, curr_pos, curr_angle, 0)
           jump_angle1 == curr_angle + Radians(72)
           next_pos == VAdd(curr_pos,
                            VScale(VAdd(UnitVector(curr_angle),
                                        UnitVector(jump_angle1)),
                                   m_edge_length))
       IN  IF numpy_raises
           THEN /\ m_pc' = "raised"
                /\ UNCHANGED <<all_shapes, curr_pos, curr_angle, m_p>>
           ELSE /\ all_shapes' =
                       Append(all_shapes, PointsPlusListOfPoints(points))
                /\ curr_pos' = next_pos
                /\ curr_angle' = curr_angle + shift_angle
                /\ m_p' = m_p + 1
                /\ m_pc' = m_pc
    /\ UNCHANGED <<numpy_raises, m_edge_length, n_pentagons, shift_angle,
                   m_ret>>
    /\ UNCHANGED <<perfect, gpt>>

\* generate_ring_points, line 65: return all_shapes
MoroReturn ==
    /\ m_pc = "loop"
    /\ ~(m_p < n_pentagons)
    /\ m_ret' = all_shapes
    /\ m_pc' = "returned"
    /\ UNCHANGED <<numpy_raises, m_edge_length, n_pentagons, all_shapes,
                   curr_pos, curr_angle, shift_angle, m_p>>
    /\ UNCHANGED <<perfect, gpt>>

\* ------------------------------------------------ build_pentagon_GPT
\* s = 3.0
SIDE == 3
\* range(9)
TRANSITIONS == 9

\* rot(v, 36 degrees): multiplication by z
RotOnce(v) == <<0 - v[4], v[1] + v[4], v[2] - v[4], v[3] + v[4]>>
RECURSIVE RotTimes(_, _)
RotTimes(v, k) == IF k = 0 THEN v ELSE RotTimes(RotOnce(v), k - 1)
\* rot(v, ang)
Rot(v, ang) == RotTimes(v, ang % TWO_PI)

RECURSIVE PentagonFromEdgeLoop(_, _, _, _, _)
\* the loop of build_pentagon_from_edge, lines 29-32
PentagonFromEdgeLoop(pts, pt, v, ext, k) ==
    IF k = 4 THEN pts
    ELSE PentagonFromEdgeLoop(Append(pts, VAdd(pt, v)), VAdd(pt, v),
                              Rot(v, ext), ext, k + 1)

\* build_pentagon_from_edge(p0, v01, turn_sign)
BuildPentagonFromEdge(p0, v01, turn_sign) ==
    LET ext == turn_sign * (TWO_PI \div 5)
    IN  PentagonFromEdgeLoop(<<p0>>, p0, v01, ext, 0)

\* main(), lines 51-64: the first pentagon and its third edge
GptFirst ==
    /\ g_pc = "start"
    /\ LET s == SIDE
           v01 == VScale(UnitVector(0), s)
           p0 == Origin
           turn_sign == 1
           poly == BuildPentagonFromEdge(p0, v01, turn_sign)
       IN  /\ polys' = <<poly>>
           /\ e3_start' = poly[3]
           /\ e3_end' = poly[4]
    /\ g_count' = 0
    /\ g_pc' = "loop"
    /\ UNCHANGED closure
    /\ UNCHANGED <<perfect, moro>>

\* the loop body, had the first edge of the next pentagon not been reversed
GptIter_NotReversed ==
    /\ g_pc = "loop"
    /\ g_count < TRANSITIONS
    /\ LET p0_next == e3_end
           v01_next == VSub(e3_end, e3_start)
           poly == BuildPentagonFromEdge(p0_next, v01_next, 1)
       IN  /\ polys' = Append(polys, poly)
           /\ e3_start' = poly[3]
           /\ e3_end' = poly[4]
    /\ g_count' = g_count + 1
    /\ UNCHANGED <<g_pc, closure>>
    /\ UNCHANGED <<perfect, moro>>

\* main(), lines 67-76: one iteration of the loop
GptIter ==
    /\ g_pc = "loop"
    /\ g_count < TRANSITIONS
    /\ LET p0_next == e3_end
           v01_next == VSub(e3_start, e3_end)
           poly == BuildPentagonFromEdge(p0_next, v01_next, 1)
       IN  /\ polys' = Append(polys, poly)
           /\ e3_start' = poly[3]
           /\ e3_end' = poly[4]
    /\ g_count' = g_count + 1
    /\ UNCHANGED <<g_pc, closure>>
    /\ UNCHANGED <<perfect, moro>>

\* main(), lines 78-79: closure = |polys[-1][0] - polys[0][0]|
GptClosure ==
    /\ g_pc = "loop"
    /\ ~(g_count < TRANSITIONS)
    /\ closure' = Norm(VSub(polys[Len(polys)][1], polys[1][1]))
    /\ g_pc' = "done"
    /\ UNCHANGED <<polys, e3_start, e3_end, g_count>>
    /\ UNCHANGED <<perfect, moro>>

\* ------------------------------------------------ the programs side by side
\* a ring object and a MoroGeometricCore constructed with the same polygon
\* count and edge length, and build_pentagon_GPT.main about to start
InitChains ==
    \E n \in PentagonCounts \ {0}, len \in EdgeLengths :
        /\ exists = TRUE
        /\ num_pentagons = n
        /\ edge_length = len
        /\ rotation_per_pentagon = RotationPerPentagon(n)
        /\ pentagons = <<>>
        /\ final_position = None
        /\ closure_error = None
        /\ pc = "idle"
        /\ current_pos = Origin
        /\ current_angle = 0
        /\ i = 0
        /\ call = "__init__"
        /\ arg = <<n, len>>
        /\ raised = "None"
        /\ ret = None
        /\ generations = 0
        /\ starts = <<>>
        /\ last = <<>>
        /\ calls = 1
        /\ numpy_raises \in BOOLEAN
        /\ m_edge_length = len
        /\ n_pentagons = n
        /\ m_pc = "idle"
        /\ all_shapes = <<>>
        /\ curr_pos = Origin
        /\ curr_angle = 0
        /\ shift_angle = 0
        /\ m_p = 0
        /\ m_ret = None
        /\ g_pc = "start"
        /\ polys = <<>>
        /\ e3_start = None
        /\ e3_end = None
        /\ g_count = 0
        /\ closure = None

NextChains ==
    \/ GenerateBegin /\ UNCHANGED <<moro, gpt>>
    \/ GenerateIter /\ UNCHANGED <<moro, gpt>>
    \/ GenerateEnd /\ UNCHANGED <<moro, gpt>>
    \/ MoroBegin
    \/ MoroIter
    \/ MoroReturn
    \/ GptFirst
    \/ GptIter
    \/ GptClosure

SpecChains == InitChains /\ [][NextChains]_vars

\* ===================================================================
\* Properties
\* ===================================================================

\* generate() has returned and no call is in progress
Built == exists /\ pc = "idle" /\ generated

\* sign of the cross product u x v (positive: v is to the left of u)
CrossSign(u, v) ==
    RSign(RSub(RMul(TwiceX(u), YOverSin36(v)),
               RMul(YOverSin36(u), TwiceX(v))))

\* the vertex after vertex e around a pentagon
NextIndex(e) == (e % 5) + 1

\* pentagon q has two vertices on the endpoints of edge e of pentagon p and
\* the remaining vertices of p and of q lie strictly on opposite sides of it
SharesEdgeAt(p, q, e) ==
    \E a, b \in 1..5 :
        /\ a # b
        /\ q[a] = p[e]
        /\ q[b] = p[NextIndex(e)]
        /\ LET d == VSub(p[NextIndex(e)], p[e])
               side(v) == CrossSign(d, VSub(v, p[e]))
           IN  \E sg \in {0 - 1, 1} :
                   /\ \A k \in (1..5) \ {e, NextIndex(e)} : side(p[k]) = sg
                   /\ \A k \in (1..5) \ {a, b} : side(q[k]) = 0 - sg
SharesEdge(p, q) == \E e \in 1..5 : SharesEdgeAt(p, q, e)

\* all five edges of a polygon, the wraparound edge included, have length len
AllEdgesHaveLength(polygon, len) ==
    /\ Len(polygon) = 5
    /\ \A k \in 1..5 :
           /\ NormSq(VSub(polygon[NextIndex(k)], polygon[k])) = RInt(len * len)
           /\ Norm(VSub(polygon[NextIndex(k)], polygon[k])) = RInt(len)

\* C1: after generate() on a ring of 10 pentagons with unit edge, the final
\* reference point is the origin and the closure error is zero (hence below
\* every positive tolerance).
C1_CanonicalClosure ==
    (Built /\ num_pentagons = 10 /\ edge_length = 1)
        => /\ final_position = Origin
           /\ closure_error = RZero
           /\ \A tolerance \in Tolerances :
                  RSign(tolerance) = 1 => RLess(closure_error, tolerance)
C1_Witness ==
    /\ Built /\ num_pentagons = 10 /\ edge_length = 1
    /\ Len(pentagons) = 10 /\ current_angle = TWO_PI

\* C2: in a generated ring of 10 pentagons (positive edge length) every
\* pentagon k and its successor, the first pentagon after the last, have a
\* full edge in common and lie on opposite sides of it.
C2_EdgeToEdge ==
    (Built /\ num_pentagons = 10 /\ edge_length > 0)
        => \A k \in 1..10 :
               SharesEdge(pentagons[k], pentagons[(k % 10) + 1])
C2_Witness ==
    /\ Built /\ num_pentagons = 10 /\ edge_length > 0
    /\ SharesEdgeAt(pentagons[10], pentagons[1], 3)
    /\ pentagons[1][1] = pentagons[10][3]
    /\ pentagons[1][5] = pentagons[10][4]

\* C3: for a positive edge length every polygon _build_single_pentagon
\* returns, whether called directly with any start point and heading or
\* from generate(), has five edges of length edge_length, the wraparound
\* edge included; get_statistics then reports mean = min = max = edge_length
\* and standard deviation 0.
C3_EdgeLengths ==
    (exists /\ edge_length > 0)
        => /\ \A k \in 1..Len(pentagons) :
                  AllEdgesHaveLength(pentagons[k], edge_length)
           /\ (call = "_build_single_pentagon")
                  => AllEdgesHaveLength(ret, edge_length)
           /\ (call = "get_statistics" /\ raised = "None")
                  => /\ ret.edge_length_mean.num
                            = RInt(ret.edge_length_mean.den * edge_length)
                     /\ ret.edge_length_mean.den = 5 * num_pentagons
                     /\ ret.edge_length_min = RInt(edge_length)
                     /\ ret.edge_length_max = RInt(edge_length)
                     /\ ret.edge_length_std.num = RZero
C3_Witness ==
    /\ exists /\ edge_length = MaxEdge /\ num_pentagons = 10
    /\ call = "get_statistics" /\ raised = "None"
    /\ ret.edge_length_min = RInt(MaxEdge)

\* C4: after generate() with num_pentagons = N >= 1 the ring holds exactly N
\* polygons in construction order, each of exactly 5 vertices starting at the
\* start point it was built from and without a closing copy of vertex 0; for
\* N = 10 get_statistics reports 50 vertices.
C4_RingShape ==
    /\ (Built /\ num_pentagons >= 1)
           => /\ Len(pentagons) = num_pentagons
              /\ Len(starts) = num_pentagons
              /\ \A k \in 1..Len(pentagons) :
                     /\ Len(pentagons[k]) = 5
                     /\ pentagons[k][1] = starts[k]
    /\ (exists /\ call = "get_statistics" /\ raised = "None"
            /\ num_pentagons = 10)
           => ret.num_vertices = 50
C4_Witness ==
    /\ Built /\ num_pentagons = 10 /\ edge_length = 1
    /\ call = "get_statistics" /\ raised = "None"
    /\ ret.num_vertices = 50

\* C5: a ring with pentagon_count < 1 is rejected before any construction:
\* for such a count generate() never completes, no polygon is built and
\* closure_error and final_position are never set.
C5_InvalidCountRejected ==
    (exists /\ num_pentagons < 1)
        => /\ ~generated
           /\ pentagons = <<>>
           /\ closure_error = None
           /\ final_position = None

\* C6: an edge length <= 0 is rejected: no polygon, degenerate or not, is
\* ever built from such an edge length, neither by generate() nor by a call
\* of _build_single_pentagon, and generate() never completes.
C6_InvalidEdgeRejected ==
    (exists /\ edge_length <= 0)
        => /\ ~generated
           /\ pentagons = <<>>
           /\ call = "_build_single_pentagon" => raised # "None"

\* the queries of the ring
Queries == {"verify_closure", "get_statistics", "final_position"}

\* C7 (as claimed): every query made before generate() has completed raises
\* the not-yet-built error, the read of final_position included.
C7_EveryQueryRaises ==
    (exists /\ ~generated /\ call \in Queries) => raised = "RuntimeError"

\* C7 (amended): before generate() has completed verify_closure and
\* get_statistics raise RuntimeError and return nothing, while reading
\* final_position raises nothing and yields None.
C7_QueriesBeforeGenerate ==
    (exists /\ ~generated)
        => /\ call \in {"verify_closure", "get_statistics"}
                  => (raised = "RuntimeError" /\ ret = None)
           /\ call = "final_position" => (raised = "None" /\ ret = None)
C7_Witness ==
    /\ exists /\ ~generated /\ num_pentagons = 10
    /\ call = "verify_closure" /\ raised = "RuntimeError"

\* C8: on a generated ring verify_closure(tolerance) raises nothing, returns
\* the pair (closure_error < tolerance, closure_error) with a strict
\* comparison (an error equal to the tolerance is not closed) and leaves
\* the ring unchanged.
C8_VerifyClosure ==
    [][(call' = "verify_closure" /\ generated)
          => /\ raised' = "None"
             /\ ret'[2] = closure_error
             /\ ret'[1] = (RSign(RSub(arg', closure_error)) > 0)
             /\ (arg' = closure_error => ret'[1] = FALSE)
             /\ UNCHANGED <<exists, ring, generations>>]_vars
C8_Witness ==
    /\ Built /\ call = "verify_closure" /\ raised = "None"
    /\ closure_error # RZero /\ arg = closure_error /\ ret[1] = FALSE

\* C9: construction is deterministic and generate() is idempotent: a ring
\* generated with the same (num_pentagons, edge_length) as the ring generated
\* before it, by a second generate() on the same object or on a newly
\* constructed one, has the same polygons, final point and closure error,
\* and for num_pentagons >= 1 it still has exactly num_pentagons polygons.
C9_Deterministic ==
    Built =>
        /\ num_pentagons >= 1 => Len(pentagons) = num_pentagons
        /\ (/\ last # <<>>
            /\ last[1].num_pentagons = num_pentagons
            /\ last[1].edge_length = edge_length) => last[1] = Snapshot
C9_Witness ==
    /\ Built /\ generations >= 2 /\ num_pentagons = 10 /\ edge_length = 1
    /\ last # <<>> /\ last[1] = Snapshot /\ Len(pentagons) = 10

C11_TransitionRule ==
    [][/\ (pc = "loop" /\ i' = i + 1)
           => /\ current_pos' =
                     VAdd(current_pos,
                          VAdd(VScale(UnitVector(current_angle), edge_length),
                               VScale(UnitVector(current_angle
                                                 + PENTAGON_EXTERIOR_ANGLE),
                                      edge_length)))
              /\ current_angle' = current_angle + rotation_per_pentagon
              /\ current_angle' = i' * rotation_per_pentagon
       /\ (pc = "loop" /\ pc' = "idle" /\ num_pentagons >= 1)
           => /\ i = num_pentagons
              /\ current_angle = TWO_PI]_vars
C11_Witness ==
    /\ exists /\ pc = "loop" /\ num_pentagons = 10 /\ edge_length = MaxEdge
    /\ i = 7 /\ current_angle = 7 /\ Len(pentagons) = 7

\* C12 (as claimed): in every iteration (positive edge length) the start
\* point of the next polygon differs from each of the 5 vertices of the
\* polygon just built.
C12_StartIsNoVertex ==
    (exists /\ pc = "loop" /\ i >= 1 /\ edge_length > 0)
        => \A j \in 1..5 : current_pos # pentagons[i][j]

\* C12 (amended): in every iteration (positive edge length) the start point
\* of the next polygon is at the position of vertex 2 of the polygon just
\* built, the end of its second edge, and differs from its other 4 vertices.
C12_StartIsVertexTwo ==
    (exists /\ pc = "loop" /\ i >= 1 /\ edge_length > 0)
        => /\ current_pos = pentagons[i][3]
           /\ \A j \in (1..5) \ {3} : current_pos # pentagons[i][j]
C12_Witness ==
    /\ exists /\ pc = "loop" /\ i = 3 /\ num_pentagons = 10
    /\ edge_length = 1 /\ current_pos = pentagons[3][3]

\* C14: closure does not depend on the count being 10: for every
\* num_pentagons >= 2 and any edge length the final point is the origin and
\* the closure error 0; for num_pentagons = 1 the final point is
\* edge_length * (u(0) + u(72)), which for a non-zero edge length is not the
\* origin, and the closure error is positive.
C14_ClosureForAnyCount ==
    Built =>
        /\ num_pentagons >= 2
               => (final_position = Origin /\ closure_error = RZero)
        /\ num_pentagons = 1
               => /\ final_position =
                         VScale(VAdd(UnitVector(0),
                                     UnitVector(PENTAGON_EXTERIOR_ANGLE)),
                                edge_length)
                  /\ edge_length # 0
                         => /\ final_position # Origin
                            /\ RSign(closure_error) = 1
C14_Witness ==
    /\ Built /\ num_pentagons = 1 /\ edge_length = 1
    /\ closure_error = <<0, 1>>
    /\ last # <<>> /\ last[1].num_pentagons = 5
    /\ last[1].final_position = Origin /\ Len(last[1].pentagons) = 5

\* C15: between calls the two built-ness guards agree: closure_error is set
\* exactly when the polygon list is non-empty, so verify_closure and
\* get_statistics either both raise or both return.
C15_GuardsAgree ==
    (exists /\ pc = "idle") => ((closure_error # None) <=> (pentagons # <<>>))

\* a 2D point
IsPoint(x) == x \in Int \X Int \X Int \X Int

\* a flat sequence of points: 5 vertices, then at most a copy of vertex 0
IsFlatShape(shape) ==
    /\ Len(shape) \in {5, 6}
    /\ \A j \in 1..Len(shape) : IsPoint(shape[j])
    /\ Len(shape) = 6 => shape[6] = shape[1]

\* C13: generate_ring_points(n_pentagons) returns (it does not fail, for a
\* count >= 1) exactly n_pentagons shapes, and every shape it records is a
\* flat sequence of points: the 5 vertices, then at most one closing copy of
\* vertex 0, never a nested list of points.
C13_FlatShapes ==
    /\ n_pentagons >= 1 => m_pc # "raised"
    /\ \A k \in 1..Len(all_shapes) : IsFlatShape(all_shapes[k])
    /\ (m_pc = "returned" /\ n_pentagons >= 1)
           => /\ Len(m_ret) = n_pentagons
              /\ \A k \in 1..Len(m_ret) : IsFlatShape(m_ret[k])

\* the smaller of two numbers
Smaller(a, b) == IF a < b THEN a ELSE b

\* C16: run side by side with the same polygon count n >= 1 and the same edge
\* length, generate_ring_points and generate() hold the same running
\* (point, heading) at the start of every iteration k, and the first five
\* points of shape k of the former are the five vertices of polygon k of the
\* latter.
C16_CoresAgree ==
    (exists /\ num_pentagons >= 1 /\ n_pentagons = num_pentagons
        /\ m_edge_length = edge_length)
        => /\ (pc = "loop" /\ m_pc = "loop" /\ i = m_p)
                  => (current_pos = curr_pos /\ current_angle = curr_angle)
           /\ \A k \in 1..Smaller(Len(pentagons), Len(all_shapes)) :
                  SubSeq(all_shapes[k], 1, 5) = pentagons[k]
C16_Witness ==
    /\ exists /\ num_pentagons = 10 /\ n_pentagons = 10
    /\ edge_length = MaxEdge /\ m_edge_length = MaxEdge
    /\ pc = "loop" /\ m_pc = "loop" /\ i = 6 /\ m_p = 6
    /\ Len(all_shapes) = 6 /\ Len(pentagons) = 6
    /\ curr_pos = current_pos /\ curr_pos # Origin

\* the sum of the first three edge vectors of a polygon
ThreeEdges(poly) == VSub(poly[4], poly[1])

\* C17: in the chain of build_pentagon_GPT.main every pentagon after the
\* first starts on the edge v2-v3 of its predecessor (its v0 is the
\* predecessor's v3, its v1 the predecessor's v2); no pentagon of the chain
\* starts at the first pentagon's v0 again, which only the start point of
\* the 10th transition (v3 of the 10th pentagon) does; the closure main
\* measures over 10 pentagons, 9 transitions, is not zero but the length of
\* the sum of three consecutive edge vectors, SIDE times the golden ratio.
C17_EdgeLookupChain ==
    /\ \A k \in 1..Len(polys) :
           /\ Len(polys[k]) = 5
           /\ k > 1 => /\ polys[k][1] = polys[k - 1][4]
                       /\ polys[k][2] = polys[k - 1][3]
                       /\ polys[k][1] # polys[1][1]
    /\ g_pc = "done"
           => /\ Len(polys) = TRANSITIONS + 1
              /\ e3_end = polys[1][1]
              /\ closure # RZero
              /\ closure = RScale(SIDE, <<0, 1>>)
              /\ closure = Norm(ThreeEdges(polys[1]))
C17_Witness ==
    /\ g_pc = "done" /\ Len(polys) = 10 /\ closure = <<0, 3>>
    /\ polys[10][1] = polys[9][4] /\ e3_end = Origin

====
